---- MODULE Spec2Model ----
(***************************************************************************)
(* DocIntel: the document session store (DocumentProvider in               *)
(* frontend/src/context/DocContext.jsx) as a state machine.                *)
(*                                                                         *)
(* The store is one React state record, documentState.  Every operation    *)
(* of the provider is a synchronous prefix (precondition check, then a     *)
(* functional setDocumentState that raises isLoading), a fetch that        *)
(* suspends the operation, and a settlement (a second functional           *)
(* setDocumentState applied to the state of the moment the fetch           *)
(* settles).  JavaScript is single-threaded, so the prefix and the         *)
(* settlement are each one atomic step; requests that were dispatched and  *)
(* have not settled are kept in `pending`, in the order of their calls,    *)
(* and may settle in any order.                                            *)
(***************************************************************************)
EXTENDS Integers, Sequences, FiniteSets

\* ------------------------------------------------------------------ bounds
\* requests that may be awaiting their fetch at the same time
MaxPending == 2
\* user/assistant pairs the transcript may grow to
MaxPairs == 2
\* questions the backend returns for one quiz generation
MaxQuestions == 2
\* requests sent to the backend in one run
MaxRequests == 4
\* answers that getOverallScore is applied to
MaxScored == 3
\* timeouts of showToast that have not fired yet
MaxTimers == 3

\* ------------------------------------------------------- values and inputs
\* JavaScript null (documentId, sessionId, error)
Null == "null"

\* the file objects a consumer may hand to uploadDocument
Files == {[name |-> "a.pdf", size |-> 1]}
\* the question texts a consumer may hand to askQuestion
QuestionTexts == {"What is X?"}
\* the option keys a consumer may hand to submitChallengeAnswer
Options == {"A", "B"}
\* the indices a consumer may hand to submitChallengeAnswer and
\* setCurrentChallenge, (0-based, as in the code), one out of range each side
Indices == -1 .. MaxQuestions

\* the quiz the backend produces with n questions: [{id, ...}, ...]; a quiz
\* has a fixed number of questions ("Generates 3 document-aware questions")
QuestionList(n) == [i \in 1 .. n |-> [id |-> i]]

\* POST /upload response bodies: { document_id, summary }, summary optional
UploadResponses ==
    {[document_id |-> "d1", summary |-> "S"],
     [document_id |-> "d2"]}

\* POST /qa/ask response body for a request body: { answer, ... }.  The
\* answer is the backend's reply to that question on that document.
AskResponse(req) ==
    [answer |-> <<"answer to", req.question, req.document_id>>]

\* the quiz session ids the backend hands out
SessionIds == {"s1", "s2"}

\* POST /challenge/generate response bodies: { session_id, questions },
\* questions a full quiz, empty, or absent
GenerateResponses ==
    {[session_id |-> s, questions |-> QuestionList(n)] :
        s \in SessionIds, n \in {0, MaxQuestions}}
    \cup {[session_id |-> s] : s \in SessionIds}

\* POST /challenge/evaluate response body for a request body:
\* { score, correct, ... }, the backend's evaluation of that answer to that
\* question of that session (option "B" is the right one)
EvaluateResponse(req) ==
    [score |-> (IF req.user_answer = "B" THEN 80 ELSE 0),
     correct |-> (req.user_answer = "B"),
     of |-> <<req.session_id, req.question_id, req.user_answer>>]

\* the message of the TypeError fetch rejects with on a network failure
NetworkError == "Failed to fetch"

\* ---------------------------------------------------------------- the state
VARIABLES
    isUploaded, fileName, fileSize, summary, documentId, sessionId,
    chatHistory, challenges, currentChallenge, userAnswers, isLoading, error,
    pending,    \* requests dispatched and not settled, in call order
    sent,       \* number of requests dispatched so far
    event,      \* what the last step was: the call or settlement, its outcome
    isTyping, currentQuestion,  \* useState of ChatInterface
    toast,      \* useState of ToastProvider: null or the toast on display
    timers      \* the timeouts of showToast that have not fired, oldest first

documentState ==
    <<isUploaded, fileName, fileSize, summary, documentId, sessionId,
      chatHistory, challenges, currentChallenge, userAnswers, isLoading, error>>

\* the state the components keep for themselves
componentState == <<isTyping, currentQuestion, toast, timers>>

vars == <<documentState, pending, sent, event, componentState>>

\* currentChallenge is null or a number: the empty set or a singleton
NoChallenge == {}

\* useState initial values of ChatInterface and ToastProvider
ComponentInit ==
    /\ isTyping = FALSE
    /\ currentQuestion = ""
    /\ toast = {}
    /\ timers = <<>>

\* useState initial value
Init ==
    /\ ComponentInit
    /\ isUploaded = FALSE
    /\ fileName = ""
    /\ fileSize = 0
    /\ summary = ""
    /\ documentId = Null
    /\ sessionId = Null
    /\ chatHistory = <<>>
    /\ challenges = <<>>
    /\ currentChallenge = NoChallenge
    /\ userAnswers = <<>>
    /\ isLoading = FALSE
    /\ error = Null
    /\ pending = <<>>
    /\ sent = 0
    /\ event = [kind |-> "init"]

\* ----------------------------------------------------------------- helpers
\* s without its i-th element
RemoveAt(s, i) == SubSeq(s, 1, i - 1) \o SubSeq(s, i + 1, Len(s))

\* challenges[questionIndex]: undefined outside the array
HasQuestion(questionIndex) ==
    questionIndex >= 0 /\ questionIndex < Len(challenges)

\* ask requests awaiting their response
PendingAsks == Cardinality({i \in 1 .. Len(pending) : pending[i].op = "askQuestion"})

\* room to dispatch one more request
CanDispatch == Len(pending) < MaxPending /\ sent < MaxRequests

\* setDocumentState(prev => ({ ...prev, isLoading: true, error: null }))
StartLoading ==
    /\ isLoading' = TRUE
    /\ error' = Null
    /\ UNCHANGED <<isUploaded, fileName, fileSize, summary, documentId, sessionId,
                   chatHistory, challenges, currentChallenge, userAnswers>>

\* a call that throws before it touches the state or the network
Throws(op, message) ==
    /\ event' = [kind |-> "call", op |-> op, outcome |-> "thrown", message |-> message]
    /\ UNCHANGED <<documentState, pending, sent>>

\* a call that passes its precondition: raise isLoading, send the request
Dispatch(req) ==
    /\ CanDispatch
    /\ StartLoading
    /\ pending' = Append(pending, req)
    /\ sent' = sent + 1
    /\ event' = [kind |-> "call", op |-> req.op, outcome |-> "dispatched", req |-> req]

\* a catch block that records the message and leaves isLoading as it is
FailureKeepsLoading(message) ==
    /\ error' = message
    /\ UNCHANGED <<isUploaded, fileName, fileSize, summary, documentId, sessionId,
                   chatHistory, challenges, currentChallenge, userAnswers,
                   isLoading>>

\* the catch block of askQuestion, generateChallenges, submitChallengeAnswer
FailureUpdate(message) ==
    /\ isLoading' = FALSE
    /\ error' = message
    /\ UNCHANGED <<isUploaded, fileName, fileSize, summary, documentId, sessionId,
                   chatHistory, challenges, currentChallenge, userAnswers>>

\* the i-th pending request settles; `at` keeps its place among the requests
\* that were pending (those before it were called earlier)
Settled(i, outcome, data) ==
    /\ pending' = RemoveAt(pending, i)
    /\ UNCHANGED sent
    /\ event' = [kind |-> "settle", op |-> pending[i].op, outcome |-> outcome,
                 req |-> pending[i], data |-> data, at |-> i]

\* the two ways a fetch fails: a non-2xx response, a network error
FailureMessages(notOk) == {notOk, NetworkError}

\* ------------------------------------------------------------ uploadDocument
uploadDocument(file) ==
    Dispatch([op |-> "uploadDocument", file |-> file])

\* a success update that forgets to drop the previous document's transcript
UploadSuccessKeepsChat(file, data) ==
    /\ isUploaded' = TRUE
    /\ fileName' = file.name
    /\ fileSize' = file.size
    /\ documentId' = data.document_id
    /\ summary' = (IF "summary" \in DOMAIN data THEN data.summary ELSE "")
    /\ sessionId' = Null
    /\ challenges' = <<>>
    /\ userAnswers' = <<>>
    /\ isLoading' = FALSE
    /\ UNCHANGED <<chatHistory, currentChallenge, error>>

UploadSuccessUpdate(file, data) ==
    /\ isUploaded' = TRUE
    /\ fileName' = file.name
    /\ fileSize' = file.size
    /\ documentId' = data.document_id
    /\ summary' = (IF "summary" \in DOMAIN data THEN data.summary ELSE "")
    /\ sessionId' = Null
    /\ chatHistory' = <<>>
    /\ challenges' = <<>>
    /\ userAnswers' = <<>>
    /\ isLoading' = FALSE
    /\ UNCHANGED <<currentChallenge, error>>

UploadFailureUpdate(message) ==
    /\ documentId' = Null
    /\ isLoading' = FALSE
    /\ error' = message
    /\ UNCHANGED <<isUploaded, fileName, fileSize, summary, sessionId,
                   chatHistory, challenges, currentChallenge, userAnswers>>

\* the settlement event also keeps the sizes of what the new document found
uploadResolves(i) ==
    /\ pending[i].op = "uploadDocument"
    /\ \E data \in UploadResponses :
          /\ UploadSuccessUpdate(pending[i].file, data)
          /\ pending' = RemoveAt(pending, i)
          /\ UNCHANGED sent
          /\ event' = [kind |-> "settle", op |-> "uploadDocument",
                       outcome |-> "resolved", req |-> pending[i], data |-> data,
                       at |-> i,
                       before |-> <<Len(chatHistory), Len(challenges),
                                    Len(userAnswers)>>]

uploadRejects(i) ==
    /\ pending[i].op = "uploadDocument"
    /\ \E message \in FailureMessages("Upload failed") :
          /\ UploadFailureUpdate(message)
          /\ Settled(i, "rejected", message)

\* --------------------------------------------------------------- askQuestion
askQuestion(question) ==
    IF ~isUploaded
    THEN Throws("askQuestion", "Please upload a document first")
    ELSE /\ Len(chatHistory) + 2 * PendingAsks < 2 * MaxPairs
         /\ Dispatch([op |-> "askQuestion", question |-> question,
                      document_id |-> documentId])

\* a success update that appends the answer before the question
AskSuccessAssistantFirst(question, data) ==
    /\ chatHistory' = chatHistory \o
          <<[type |-> "assistant", content |-> data.answer],
            [type |-> "user", content |-> question]>>
    /\ isLoading' = FALSE
    /\ UNCHANGED <<isUploaded, fileName, fileSize, summary, documentId, sessionId,
                   challenges, currentChallenge, userAnswers, error>>

\* a success update that puts the new pair in front of the transcript
AskSuccessPrepends(question, data) ==
    /\ chatHistory' =
          <<[type |-> "user", content |-> question],
            [type |-> "assistant", content |-> data.answer]>> \o chatHistory
    /\ isLoading' = FALSE
    /\ UNCHANGED <<isUploaded, fileName, fileSize, summary, documentId, sessionId,
                   challenges, currentChallenge, userAnswers, error>>

\* a success update that also dismisses the error of another request
AskSuccessClearsError(question, data) ==
    /\ chatHistory' = chatHistory \o
          <<[type |-> "user", content |-> question],
            [type |-> "assistant", content |-> data.answer]>>
    /\ isLoading' = FALSE
    /\ error' = Null
    /\ UNCHANGED <<isUploaded, fileName, fileSize, summary, documentId, sessionId,
                   challenges, currentChallenge, userAnswers>>

AskSuccessUpdate(question, data) ==
    /\ chatHistory' = chatHistory \o
          <<[type |-> "user", content |-> question],
            [type |-> "assistant", content |-> data.answer]>>
    /\ isLoading' = FALSE
    /\ UNCHANGED <<isUploaded, fileName, fileSize, summary, documentId, sessionId,
                   challenges, currentChallenge, userAnswers, error>>

\* a catch block that records the question although no answer came
AskFailureKeepsQuestion(question, message) ==
    /\ chatHistory' = Append(chatHistory, [type |-> "user", content |-> question])
    /\ isLoading' = FALSE
    /\ error' = message
    /\ UNCHANGED <<isUploaded, fileName, fileSize, summary, documentId, sessionId,
                   challenges, currentChallenge, userAnswers>>

AskFailureUpdate(question, message) ==
    FailureUpdate(message)

askResolves(i) ==
    /\ pending[i].op = "askQuestion"
    /\ AskSuccessUpdate(pending[i].question, AskResponse(pending[i]))
    /\ Settled(i, "resolved", AskResponse(pending[i]))

askRejects(i) ==
    /\ pending[i].op = "askQuestion"
    /\ \E message \in FailureMessages("Failed to get answer") :
          /\ AskFailureUpdate(pending[i].question, message)
          /\ Settled(i, "rejected", message)

\* -------------------------------------------------------- generateChallenges
generateChallenges ==
    IF ~isUploaded
    THEN Throws("generateChallenges", "Please upload a document first")
    ELSE Dispatch([op |-> "generateChallenges", document_id |-> documentId])

\* a success update that forgets to drop the answers of the previous quiz
GenerateSuccessKeepsAnswers(data) ==
    /\ challenges' = (IF "questions" \in DOMAIN data THEN data.questions ELSE <<>>)
    /\ sessionId' = data.session_id
    /\ currentChallenge' = {0}
    /\ isLoading' = FALSE
    /\ UNCHANGED <<isUploaded, fileName, fileSize, summary, documentId,
                   chatHistory, userAnswers, error>>

GenerateSuccessUpdate(data) ==
    /\ challenges' = (IF "questions" \in DOMAIN data THEN data.questions ELSE <<>>)
    /\ sessionId' = data.session_id
    /\ currentChallenge' = {0}
    /\ userAnswers' = <<>>
    /\ isLoading' = FALSE
    /\ UNCHANGED <<isUploaded, fileName, fileSize, summary, documentId,
                   chatHistory, error>>

\* a catch block that also throws the quiz away
GenerateFailureDropsQuiz(message) ==
    /\ challenges' = <<>>
    /\ sessionId' = Null
    /\ isLoading' = FALSE
    /\ error' = message
    /\ UNCHANGED <<isUploaded, fileName, fileSize, summary, documentId,
                   chatHistory, currentChallenge, userAnswers>>

GenerateFailureUpdate(message) == FailureUpdate(message)

generateResolves(i) ==
    /\ pending[i].op = "generateChallenges"
    /\ \E data \in GenerateResponses :
          /\ GenerateSuccessUpdate(data)
          /\ Settled(i, "resolved", data)

generateRejects(i) ==
    /\ pending[i].op = "generateChallenges"
    /\ \E message \in FailureMessages("Failed to generate challenges") :
          /\ GenerateFailureUpdate(message)
          /\ Settled(i, "rejected", message)

\* ----------------------------------------------------- submitChallengeAnswer
\* a call that checks the session and the document but not the question
SubmitWithoutQuestionCheck(questionIndex, answer) ==
    IF sessionId = Null \/ documentId = Null
    THEN Throws("submitChallengeAnswer",
                "Missing required fields: sessionId, documentId or question")
    ELSE Dispatch([op |-> "submitChallengeAnswer",
                   questionIndex |-> questionIndex,
                   session_id |-> sessionId,
                   question_id |-> (IF HasQuestion(questionIndex)
                                    THEN challenges[questionIndex + 1].id
                                    ELSE Null),
                   user_answer |-> answer,
                   document_id |-> documentId])

submitChallengeAnswer(questionIndex, answer) ==
    IF ~HasQuestion(questionIndex) \/ sessionId = Null \/ documentId = Null
    THEN Throws("submitChallengeAnswer",
                "Missing required fields: sessionId, documentId or question")
    ELSE Dispatch([op |-> "submitChallengeAnswer",
                   questionIndex |-> questionIndex,
                   session_id |-> sessionId,
                   question_id |-> challenges[questionIndex + 1].id,
                   user_answer |-> answer,
                   document_id |-> documentId])

\* an update that appends without dropping the earlier answer
AppendAnswer(answers, newAnswer) == Append(answers, newAnswer)

\* prev.userAnswers.filter(a => a.questionIndex !== questionIndex), newAnswer
ReplaceAnswer(answers, newAnswer) ==
    Append(SelectSeq(answers, LAMBDA a : a.questionIndex # newAnswer.questionIndex),
           newAnswer)

SubmitSuccessUpdate(questionIndex, answer, evaluation) ==
    /\ userAnswers' = ReplaceAnswer(userAnswers,
          [questionIndex |-> questionIndex, userAnswer |-> answer,
           evaluation |-> evaluation])
    /\ isLoading' = FALSE
    /\ UNCHANGED <<isUploaded, fileName, fileSize, summary, documentId, sessionId,
                   chatHistory, challenges, currentChallenge, error>>

\* a catch block that also throws the stored answers away
SubmitFailureClearsAnswers(message) ==
    /\ userAnswers' = <<>>
    /\ isLoading' = FALSE
    /\ error' = message
    /\ UNCHANGED <<isUploaded, fileName, fileSize, summary, documentId, sessionId,
                   chatHistory, challenges, currentChallenge>>

SubmitFailureUpdate(message) == FailureUpdate(message)

submitResolves(i) ==
    /\ pending[i].op = "submitChallengeAnswer"
    /\ SubmitSuccessUpdate(pending[i].questionIndex, pending[i].user_answer,
                           EvaluateResponse(pending[i]))
    /\ Settled(i, "resolved", EvaluateResponse(pending[i]))

submitRejects(i) ==
    /\ pending[i].op = "submitChallengeAnswer"
    /\ \E message \in FailureMessages("Failed to evaluate answer") :
          /\ SubmitFailureUpdate(message)
          /\ Settled(i, "rejected", message)

\* ---------------------------------------------- operations without a request
Local(op) ==
    /\ event' = [kind |-> "local", op |-> op]
    /\ UNCHANGED <<pending, sent>>

setCurrentChallenge(index) ==
    /\ currentChallenge' = {index}
    /\ UNCHANGED <<isUploaded, fileName, fileSize, summary, documentId, sessionId,
                   chatHistory, challenges, userAnswers, isLoading, error>>
    /\ Local("setCurrentChallenge")

\* a clearing that also dismisses the error
clearChatHistoryAndError ==
    /\ chatHistory' = <<>>
    /\ error' = Null
    /\ UNCHANGED <<isUploaded, fileName, fileSize, summary, documentId, sessionId,
                   challenges, currentChallenge, userAnswers, isLoading>>
    /\ event' = [kind |-> "local", op |-> "clearChatHistory",
                 before |-> Len(chatHistory)]
    /\ UNCHANGED <<pending, sent>>

\* the event also keeps the length of the transcript that was cleared
clearChatHistory ==
    /\ chatHistory' = <<>>
    /\ UNCHANGED <<isUploaded, fileName, fileSize, summary, documentId, sessionId,
                   challenges, currentChallenge, userAnswers, isLoading, error>>
    /\ event' = [kind |-> "local", op |-> "clearChatHistory",
                 before |-> Len(chatHistory)]
    /\ UNCHANGED <<pending, sent>>

\* a reset that leaves the cursor where it was
resetDocumentKeepsCursor ==
    /\ isUploaded' = FALSE
    /\ fileName' = ""
    /\ fileSize' = 0
    /\ summary' = ""
    /\ documentId' = Null
    /\ sessionId' = Null
    /\ chatHistory' = <<>>
    /\ challenges' = <<>>
    /\ userAnswers' = <<>>
    /\ isLoading' = FALSE
    /\ error' = Null
    /\ UNCHANGED currentChallenge
    /\ Local("resetDocument")

resetDocument ==
    /\ isUploaded' = FALSE
    /\ fileName' = ""
    /\ fileSize' = 0
    /\ summary' = ""
    /\ documentId' = Null
    /\ sessionId' = Null
    /\ chatHistory' = <<>>
    /\ challenges' = <<>>
    /\ currentChallenge' = NoChallenge
    /\ userAnswers' = <<>>
    /\ isLoading' = FALSE
    /\ error' = Null
    /\ Local("resetDocument")

clearError ==
    /\ error' = Null
    /\ UNCHANGED <<isUploaded, fileName, fileSize, summary, documentId, sessionId,
                   chatHistory, challenges, currentChallenge, userAnswers, isLoading>>
    /\ Local("clearError")

\* ------------------------------------------------------------- specification
\* the indices the navigation handlers and the question list of ChallengeMode
\* pass to setCurrentChallenge: those of the questions on display
DisplayedIndices == 0 .. Len(challenges) - 1

\* the store as the components drive it: the cursor is set to displayed
\* questions only
Next ==
    \/ \E file \in Files : uploadDocument(file) /\ UNCHANGED componentState
    \/ \E i \in 1 .. Len(pending) : uploadResolves(i)
          /\ UNCHANGED componentState
    \/ \E i \in 1 .. Len(pending) : uploadRejects(i)
          /\ UNCHANGED componentState
    \/ \E question \in QuestionTexts : askQuestion(question)
          /\ UNCHANGED componentState
    \/ \E i \in 1 .. Len(pending) : askResolves(i) /\ UNCHANGED componentState
    \/ \E i \in 1 .. Len(pending) : askRejects(i) /\ UNCHANGED componentState
    \/ generateChallenges /\ UNCHANGED componentState
    \/ \E i \in 1 .. Len(pending) : generateResolves(i)
          /\ UNCHANGED componentState
    \/ \E i \in 1 .. Len(pending) : generateRejects(i)
          /\ UNCHANGED componentState
    \/ \E questionIndex \in Indices, answer \in Options :
          submitChallengeAnswer(questionIndex, answer)
          /\ UNCHANGED componentState
    \/ \E i \in 1 .. Len(pending) : submitResolves(i)
          /\ UNCHANGED componentState
    \/ \E i \in 1 .. Len(pending) : submitRejects(i)
          /\ UNCHANGED componentState
    \/ \E index \in DisplayedIndices : setCurrentChallenge(index)
          /\ UNCHANGED componentState
    \/ clearChatHistory /\ UNCHANGED componentState
    \/ resetDocument /\ UNCHANGED componentState
    \/ clearError /\ UNCHANGED componentState

Spec == Init /\ [][Next]_vars

\* the store as its interface allows: setCurrentChallenge takes any index
NextAnyIndex ==
    \/ Next
    \/ \E index \in Indices : setCurrentChallenge(index)
           /\ UNCHANGED componentState

SpecAnyIndex == Init /\ [][NextAnyIndex]_vars

\* ------------------------------------------- ChallengeMode: getOverallScore
\* a.evaluation?.score || 0
ScoreOf(a) ==
    IF "score" \in DOMAIN a.evaluation THEN a.evaluation.score ELSE 0

\* userAnswers.reduce((sum, a) => sum + (a.evaluation?.score || 0), 0)
RECURSIVE ReduceScores(_, _, _)
ReduceScores(answers, k, sum) ==
    IF k > Len(answers) THEN sum
    ELSE ReduceScores(answers, k + 1, sum + ScoreOf(answers[k]))

\* Math.round of the quotient of two naturals, d > 0: the nearest integer,
\* a half going up
MathRound(n, d) == (2 * n + d) \div (2 * d)

\* a score that drops the fraction of the mean
getOverallScoreTruncated(answers) ==
    IF Len(answers) = 0 THEN 0
    ELSE ReduceScores(answers, 1, 0) \div Len(answers)

getOverallScore(answers) ==
    IF Len(answers) = 0 THEN 0
    ELSE MathRound(ReduceScores(answers, 1, 0), Len(answers))

\* the evaluations the results view is given: scores of the backend's range,
\* and an evaluation without a score
Scores == {0, 1, 80, 100}
Evaluations == {[score |-> sc, correct |-> (sc >= 80)] : sc \in Scores}
                   \cup {[correct |-> FALSE]}

\* answers to the first n questions of a quiz, one for each
AnswerLists(n) ==
    {[k \in 1 .. n |-> [questionIndex |-> k - 1, userAnswer |-> "A",
                        evaluation |-> ev[k]]] : ev \in [1 .. n -> Evaluations]}

\* a session with a document and a quiz of MaxScored questions, some of them
\* answered
ScoreInit ==
    /\ ComponentInit
    /\ isUploaded = TRUE
    /\ fileName = "a.pdf"
    /\ fileSize = 1
    /\ summary = "S"
    /\ documentId = "d1"
    /\ sessionId = "s1"
    /\ chatHistory = <<>>
    /\ challenges = QuestionList(MaxScored)
    /\ currentChallenge = {0}
    /\ userAnswers \in UNION {AnswerLists(n) : n \in 0 .. MaxScored}
    /\ isLoading = FALSE
    /\ error = Null
    /\ pending = <<>>
    /\ sent = 0
    /\ event = [kind |-> "init"]

\* getOverallScore is applied to the answers of the store (the results view
\* does so in every render that finds an answer)
renderScore ==
    /\ event.kind = "init"
    /\ event' = [kind |-> "render", op |-> "getOverallScore",
                 score |-> getOverallScore(userAnswers)]
    /\ UNCHANGED <<documentState, pending, sent>>

ScoreNext == renderScore /\ UNCHANGED componentState

ScoreSpec == ScoreInit /\ [][ScoreNext]_vars

\* ---------------------------------------- DocumentUpload: handleFileSelect
allowedTypes == {"application/pdf", "text/plain"}

\* 10 * 1024 * 1024
maxSize == 10485760

\* the files a drop or the file input may hand over: of an allowed type or
\* not, below, at and above the size cap
SelectableFiles ==
    {[name |-> "f", size |-> sz, type |-> t] :
        sz \in {1, maxSize, maxSize + 1},
        t \in {"application/pdf", "text/plain", "image/png"}}

\* files[0] of a drop or of the file input: no file, or one
Selections == {{}} \cup {{f} : f \in SelectableFiles}

\* handleFileSelect returns without calling the store
Rejected(file, outcome) ==
    /\ event' = [kind |-> "local", op |-> "handleFileSelect",
                 outcome |-> outcome, file |-> file]
    /\ UNCHANGED <<documentState, pending, sent>>

\* a size check that turns away a file of exactly the cap
handleFileSelectBelowCap(file) ==
    IF file = {} THEN Rejected(file, "no file")
    ELSE \E f \in file :
        IF f.type \notin allowedTypes
        THEN Rejected(file, "Please upload only PDF or TXT files")
        ELSE IF f.size >= maxSize
        THEN Rejected(file, "File size should be less than 10MB")
        ELSE uploadDocument(f)

handleFileSelect(file) ==
    IF file = {} THEN Rejected(file, "no file")
    ELSE \E f \in file :
        IF f.type \notin allowedTypes
        THEN Rejected(file, "Please upload only PDF or TXT files")
        ELSE IF f.size > maxSize
        THEN Rejected(file, "File size should be less than 10MB")
        ELSE uploadDocument(f)

\* the upload view: the drop zone and the file input are rendered while no
\* document is uploaded; the uploaded view has the reset button
FileSelectNext ==
    \/ (~isUploaded /\ \E file \in Selections : handleFileSelect(file))
          /\ UNCHANGED componentState
    \/ \E i \in 1 .. Len(pending) : uploadResolves(i)
          /\ UNCHANGED componentState
    \/ \E i \in 1 .. Len(pending) : uploadRejects(i)
          /\ UNCHANGED componentState
    \/ (isUploaded /\ resetDocument) /\ UNCHANGED componentState

FileSelectSpec == Init /\ [][FileSelectNext]_vars

\* --------------------------------------------------- the chat of a document
\* the questions of a chat: two that differ
ChatQuestions == {"What is X?", "What is Y?"}

\* the operations behind the upload area and the chat panel
ChatNext ==
    \/ \E file \in Files : uploadDocument(file) /\ UNCHANGED componentState
    \/ \E i \in 1 .. Len(pending) : uploadResolves(i)
          /\ UNCHANGED componentState
    \/ \E i \in 1 .. Len(pending) : uploadRejects(i)
          /\ UNCHANGED componentState
    \/ \E question \in ChatQuestions : askQuestion(question)
          /\ UNCHANGED componentState
    \/ \E i \in 1 .. Len(pending) : askResolves(i) /\ UNCHANGED componentState
    \/ \E i \in 1 .. Len(pending) : askRejects(i) /\ UNCHANGED componentState
    \/ clearChatHistory /\ UNCHANGED componentState

ChatSpec == Init /\ [][ChatNext]_vars

\* ------------------------------------- the operations with fair settlement
\* a pending request settles: its fetch resolves or rejects
Settle ==
    \E i \in 1 .. Len(pending) :
        \/ uploadResolves(i) /\ UNCHANGED componentState
        \/ uploadRejects(i) /\ UNCHANGED componentState
        \/ askResolves(i) /\ UNCHANGED componentState
        \/ askRejects(i) /\ UNCHANGED componentState
        \/ generateResolves(i) /\ UNCHANGED componentState
        \/ generateRejects(i) /\ UNCHANGED componentState
        \/ submitResolves(i) /\ UNCHANGED componentState
        \/ submitRejects(i) /\ UNCHANGED componentState

\* the four operations that send a request, their settlements, and the reset
WorkflowNext ==
    \/ \E file \in Files : uploadDocument(file) /\ UNCHANGED componentState
    \/ \E question \in QuestionTexts : askQuestion(question) /\ UNCHANGED componentState
    \/ generateChallenges /\ UNCHANGED componentState
    \/ \E questionIndex \in Indices, answer \in Options :
          submitChallengeAnswer(questionIndex, answer) /\ UNCHANGED componentState
    \/ Settle
    \/ resetDocument /\ UNCHANGED componentState

\* every request that was sent settles in the end; calls are up to the user
FairSpec == Init /\ [][WorkflowNext]_vars /\ WF_vars(Settle)

\* ------------------------------------- ChallengeMode: handleNext, handlePrev
\* currentChallenge as a number in a comparison or a sum: null counts as 0
CursorNumber == IF currentChallenge = NoChallenge THEN 0
                ELSE CHOOSE c \in currentChallenge : TRUE

\* a handler returns without calling the store
Skipped(op) ==
    /\ event' = [kind |-> "local", op |-> op]
    /\ UNCHANGED <<documentState, pending, sent>>

\* a handler that moves on without looking at the number of questions
handleNextUnguarded ==
    setCurrentChallenge(CursorNumber + 1)

handleNext ==
    IF CursorNumber < Len(challenges) - 1
    THEN setCurrentChallenge(CursorNumber + 1)
    ELSE Skipped("handleNext")

handlePrev ==
    IF CursorNumber > 0
    THEN setCurrentChallenge(CursorNumber - 1)
    ELSE Skipped("handlePrev")

\* a quiz is generated for a document and walked through with the Next and
\* Previous buttons, which are rendered while there are questions
NavNext ==
    \/ \E file \in Files : uploadDocument(file) /\ UNCHANGED componentState
    \/ \E i \in 1 .. Len(pending) : uploadResolves(i)
          /\ UNCHANGED componentState
    \/ generateChallenges /\ UNCHANGED componentState
    \/ \E i \in 1 .. Len(pending) : generateResolves(i)
          /\ UNCHANGED componentState
    \/ (isUploaded /\ challenges # <<>> /\ handleNext)
          /\ UNCHANGED componentState
    \/ (isUploaded /\ challenges # <<>> /\ handlePrev)
          /\ UNCHANGED componentState

NavSpec == Init /\ [][NavNext]_vars

\* ------------------------------- ChatInterface: handleSubmit, sendSuggestion
\* what the input can hold: nothing, blanks, a question, a question in blanks
InputTexts == {"", " ", "What is X?", " What is X? "}

\* String.prototype.trim on the texts of the input
Trim(text) ==
    CASE text = " " -> ""
      [] text = " What is X? " -> "What is X?"
      [] OTHER -> text

\* two of documentSuggestions
Suggestions == {"What are the main points?", "Explain key findings"}

\* onChange of the textarea
onChange(text) ==
    /\ currentQuestion' = text
    /\ Skipped("onChange")
    /\ UNCHANGED <<isTyping, toast, timers>>

\* the form is submitted: up to the await of askQuestion
handleSubmit ==
    IF Trim(currentQuestion) = "" \/ isLoading
    THEN Skipped("handleSubmit") /\ UNCHANGED componentState
    ELSE /\ currentQuestion' = ""
         /\ isTyping' = TRUE
         /\ askQuestion(Trim(currentQuestion))
         /\ UNCHANGED <<toast, timers>>

\* a suggestion is clicked: setCurrentQuestion(q), then handleSubmit, which
\* reads currentQuestion and isLoading of the render the click happened in
sendSuggestion(q) ==
    IF isLoading
    THEN Skipped("sendSuggestion") /\ UNCHANGED componentState
    ELSE IF Trim(currentQuestion) = ""
         THEN /\ currentQuestion' = q
              /\ Skipped("sendSuggestion")
              /\ UNCHANGED <<isTyping, toast, timers>>
         ELSE /\ currentQuestion' = ""
              /\ isTyping' = TRUE
              /\ askQuestion(Trim(currentQuestion))
              /\ UNCHANGED <<toast, timers>>

\* askQuestion resolved: handleSubmit goes on after its await
submitReturns(i) ==
    /\ askResolves(i)
    /\ isTyping' = FALSE
    /\ UNCHANGED <<currentQuestion, toast, timers>>

\* askQuestion rethrew: the await throws and handleSubmit ends there
submitThrows(i) ==
    /\ askRejects(i)
    /\ UNCHANGED componentState

\* the chat panel of an uploaded document
ChatInterfaceNext ==
    \/ \E file \in Files : uploadDocument(file) /\ UNCHANGED componentState
    \/ \E i \in 1 .. Len(pending) : uploadResolves(i)
          /\ UNCHANGED componentState
    \/ \E text \in InputTexts : isUploaded /\ onChange(text)
    \/ isUploaded /\ handleSubmit
    \/ \E q \in Suggestions : isUploaded /\ sendSuggestion(q)
    \/ \E i \in 1 .. Len(pending) : submitReturns(i)
    \/ \E i \in 1 .. Len(pending) : submitThrows(i)

ChatInterfaceSpec == Init /\ [][ChatInterfaceNext]_vars

\* --------------------------------------------------- ToastProvider: showToast
\* the messages and types of a toast
ToastMessages == {"Uploaded", "Upload failed"}
ToastTypes == {"success", "error"}

\* durations in seconds: a short one and the default of 3000 ms
Durations == {1, 3}

\* showToast({ message, type, duration }): the toast is put on display and a
\* timeout that clears the display is started; no timeout is cancelled
showToast(message, type, duration) ==
    /\ Len(timers) < MaxTimers
    /\ toast' = {[message |-> message, type |-> type]}
    /\ timers' = Append(timers, [remaining |-> duration])
    /\ Skipped("showToast")
    /\ UNCHANGED <<isTyping, currentQuestion>>

\* a second passes with no timeout due
tick ==
    /\ timers # <<>>
    /\ \A i \in 1 .. Len(timers) : timers[i].remaining > 0
    /\ timers' = [i \in 1 .. Len(timers) |->
                    [remaining |-> timers[i].remaining - 1]]
    /\ Skipped("tick")
    /\ UNCHANGED <<isTyping, currentQuestion, toast>>

\* a timeout is due: its callback runs setToast(null)
timeout(i) ==
    /\ timers[i].remaining = 0
    /\ toast' = {}
    /\ timers' = RemoveAt(timers, i)
    /\ Skipped("timeout")
    /\ UNCHANGED <<isTyping, currentQuestion>>

ToastNext ==
    \/ \E message \in ToastMessages, type \in ToastTypes, duration \in Durations :
          showToast(message, type, duration)
    \/ tick
    \/ \E i \in 1 .. Len(timers) : timeout(i)

ToastSpec == Init /\ [][ToastNext]_vars

\* ================================================================== claims
IsCall(e, op) == e.kind = "call" /\ e.op = op
IsSettle(e, op, outcome) == e.kind = "settle" /\ e.op = op /\ e.outcome = outcome
HasPending(op) == \E i \in 1 .. Len(pending) : pending[i].op = op

\* C1: in every reachable state at most one request of uploadDocument,
\* askQuestion, generateChallenges, submitChallengeAnswer is dispatched and
\* not yet settled.
AtMostOneInFlight == Len(pending) <= 1

\* C2: askQuestion invoked while a generateChallenges request is pending is
\* rejected at once: it throws, sends no request, and changes neither
\* challenges nor chatHistory.
AskWhileGeneratingRejected ==
    [][(HasPending("generateChallenges") /\ IsCall(event', "askQuestion"))
        => /\ event'.outcome = "thrown"
           /\ pending' = pending
           /\ challenges' = challenges
           /\ chatHistory' = chatHistory]_vars

\* C3: whenever a request is dispatched and not settled, isLoading is true.
LoadingWhilePending == (pending # <<>>) => isLoading

\* C4: right after a successful uploadDocument settlement documentId is the
\* returned id and chatHistory, challenges and userAnswers are empty.
UploadSuccessClears ==
    IsSettle(event, "uploadDocument", "resolved")
        => /\ documentId = event.data.document_id
           /\ chatHistory = <<>>
           /\ challenges = <<>>
           /\ userAnswers = <<>>

\* C4 witness: a successful upload settled over a session that held a
\* transcript and a quiz.
UploadOverSession ==
    /\ IsSettle(event, "uploadDocument", "resolved")
    /\ event.before[1] > 0 /\ event.before[2] > 0
    /\ documentId = event.data.document_id

\* C5: a failed uploadDocument sets error and leaves documentId as it was.
UploadFailureKeepsDocument ==
    [][IsSettle(event', "uploadDocument", "rejected")
        => (error' # Null /\ documentId' = documentId)]_vars

\* C6: currentChallenge is null or an index into challenges.
CursorInRange == \A c \in currentChallenge : 0 <= c /\ c < Len(challenges)

\* C7: when documentId is null, chatHistory, challenges and userAnswers are
\* empty and sessionId and currentChallenge are null.
NoDocumentNoData ==
    (documentId = Null)
        => /\ chatHistory = <<>>
           /\ challenges = <<>>
           /\ userAnswers = <<>>
           /\ sessionId = Null
           /\ currentChallenge = NoChallenge

\* C8: chatHistory always has even length, and the settlement of a failed
\* askQuestion leaves chatHistory exactly as it was.
TranscriptInPairs ==
    /\ [](Len(chatHistory) % 2 = 0)
    /\ [][IsSettle(event', "askQuestion", "rejected")
            => chatHistory' = chatHistory]_vars

\* C8 witness: an askQuestion failed on a transcript that holds a pair.
AskFailedOnTranscript ==
    /\ IsSettle(event, "askQuestion", "rejected")
    /\ Len(chatHistory) = 2
    /\ error # Null

\* C9: askQuestion invoked while documentId is null throws at once, sends
\* no request and leaves chatHistory unchanged.
AskWithoutDocumentRejected ==
    [][(documentId = Null /\ IsCall(event', "askQuestion"))
        => /\ event'.outcome = "thrown"
           /\ pending' = pending
           /\ chatHistory' = chatHistory]_vars

\* C10: userAnswers holds no two entries with the same questionIndex.
UniqueAnswerIndex ==
    \A i, j \in 1 .. Len(userAnswers) :
        (i # j) => userAnswers[i].questionIndex # userAnswers[j].questionIndex

\* C10 witness: of two submitChallengeAnswer requests for one index that were
\* pending together, one has settled and stored its answer while the other,
\* carrying a different answer, is still to settle.
SameIndexSettledWhilePending ==
    /\ IsSettle(event, "submitChallengeAnswer", "resolved")
    /\ \E i \in 1 .. Len(pending) :
          /\ pending[i].op = "submitChallengeAnswer"
          /\ pending[i].questionIndex = event.req.questionIndex
          /\ pending[i].user_answer # event.req.user_answer
    /\ Len(userAnswers) = 1

\* C11: of two successful submitChallengeAnswer calls for one index with
\* different answers, the answer and evaluation of the second call are the
\* ones that stay. Case checked: the second call settles, and the first call,
\* still pending before it, settles in the next step.
SecondAnswerStays ==
    [][(/\ IsSettle(event, "submitChallengeAnswer", "resolved")
        /\ IsSettle(event', "submitChallengeAnswer", "resolved")
        /\ event'.at < event.at
        /\ event'.req.questionIndex = event.req.questionIndex
        /\ event'.req.user_answer # event.req.user_answer)
        => \E k \in 1 .. Len(userAnswers') :
              /\ userAnswers'[k].questionIndex = event.req.questionIndex
              /\ userAnswers'[k].userAnswer = event.req.user_answer
              /\ userAnswers'[k].evaluation = event.data]_vars
\* C12: a successful generateChallenges settlement sets challenges to the
\* returned list (empty when the response has none), sessionId to the returned
\* session id, currentChallenge to 0 and userAnswers to empty, and leaves
\* documentId, fileName, fileSize, summary and chatHistory unchanged.
GenerateSuccessReplacesQuiz ==
    [][IsSettle(event', "generateChallenges", "resolved")
        => /\ challenges' = (IF "questions" \in DOMAIN event'.data
                              THEN event'.data.questions ELSE <<>>)
           /\ sessionId' = event'.data.session_id
           /\ currentChallenge' = {0}
           /\ userAnswers' = <<>>
           /\ UNCHANGED <<documentId, fileName, fileSize, summary,
                          chatHistory>>]_vars

\* C12 witness: a quiz with questions has just been generated for a document
\* that has a summary and a transcript.
QuizGeneratedOverTranscript ==
    /\ IsSettle(event, "generateChallenges", "resolved")
    /\ Len(challenges) = MaxQuestions
    /\ sessionId = event.data.session_id
    /\ chatHistory # <<>>
    /\ summary # ""

\* C13: the settlement of a failed generateChallenges leaves challenges,
\* sessionId, currentChallenge and userAnswers as they were and sets error to
\* the failure message.
GenerateFailureKeepsQuiz ==
    [][IsSettle(event', "generateChallenges", "rejected")
        => /\ UNCHANGED <<challenges, sessionId, currentChallenge, userAnswers>>
           /\ error' = event'.data]_vars

\* C13 witness: a generateChallenges failed on a session that holds a quiz
\* and an answer.
GenerateFailedOnQuiz ==
    /\ IsSettle(event, "generateChallenges", "rejected")
    /\ challenges # <<>>
    /\ sessionId # Null
    /\ userAnswers # <<>>
    /\ error = event.data
\* C14: submitChallengeAnswer(questionIndex, answer) invoked when sessionId is
\* null or challenges[questionIndex] does not exist throws at once, sends no
\* request and leaves userAnswers unchanged: a call that sends its request
\* found a session id and its question, and a call that throws changes
\* neither the pending requests nor userAnswers.
SubmitWithoutQuizRejected ==
    [][IsCall(event', "submitChallengeAnswer")
        => IF event'.outcome = "dispatched"
           THEN /\ sessionId # Null
                /\ HasQuestion(event'.req.questionIndex)
           ELSE /\ event'.outcome = "thrown"
                /\ pending' = pending
                /\ sent' = sent
                /\ userAnswers' = userAnswers]_vars

\* C14 witness: a submitChallengeAnswer has just been refused in a session
\* whose quiz has a session id but no question at any index.
SubmitRefusedForMissingQuestion ==
    /\ IsCall(event, "submitChallengeAnswer")
    /\ event.outcome = "thrown"
    /\ sessionId # Null
    /\ documentId # Null
    /\ challenges = <<>>

\* C15: the settlement of a failed submitChallengeAnswer sets error to the
\* failure message and leaves userAnswers exactly as it was.
SubmitFailureKeepsAnswers ==
    [][IsSettle(event', "submitChallengeAnswer", "rejected")
        => /\ userAnswers' = userAnswers
           /\ error' = event'.data
           /\ error' # Null]_vars

\* C15 witness: a submitChallengeAnswer failed on a session that holds an
\* answer.
SubmitFailedOnAnswers ==
    /\ IsSettle(event, "submitChallengeAnswer", "rejected")
    /\ userAnswers # <<>>
    /\ error = event.data
\* C16: setCurrentChallenge(index) with index < 0 or index >= the number of
\* challenges changes nothing in the store, currentChallenge included.
OutOfRangeIndexIgnored ==
    [][\A index \in Indices :
          (/\ index < 0 \/ index >= Len(challenges)
           /\ setCurrentChallenge(index))
              => UNCHANGED documentState]_vars
\* the sum of the scores of the first n answers
RECURSIVE SumOfScores(_, _)
SumOfScores(answers, n) ==
    IF n = 0 THEN 0
    ELSE answers[n].evaluation.score + SumOfScores(answers, n - 1)

AllScored(answers) ==
    \A k \in 1 .. Len(answers) : "score" \in DOMAIN answers[k].evaluation

\* C17: for answers that all carry a score, the overall score is 0 when
\* there is no answer and otherwise the integer nearest to the mean of the
\* scores, a mean ending in .5 going up; computing it changes nothing in the
\* store, which has no field for it.
OverallScoreIsRoundedMean ==
    /\ [](event.kind = "render" /\ AllScored(userAnswers)
            => LET n == Len(userAnswers)
                   total == SumOfScores(userAnswers, n)
                   r == event.score
               IN  /\ n = 0 => r = 0
                   /\ n > 0 => /\ 2 * n * r - n <= 2 * total
                                /\ 2 * total < 2 * n * r + n)
    /\ [][event'.kind = "render" => UNCHANGED documentState]_vars

\* C17 witness: the overall score of two answers scored 0 and 1, whose mean
\* is 0.5, has been rendered as 1.
HalfRoundedUp ==
    /\ event.kind = "render"
    /\ Len(userAnswers) = 2
    /\ AllScored(userAnswers)
    /\ SumOfScores(userAnswers, 2) = 1
    /\ event.score = 1
IsLocal(e, op) == e.kind = "local" /\ e.op = op

\* C18: clearChatHistory empties chatHistory and leaves documentId, fileName,
\* fileSize, summary, sessionId, challenges, currentChallenge, userAnswers,
\* isLoading and error unchanged.
ClearChatOnlyClearsChat ==
    [][IsLocal(event', "clearChatHistory")
        => /\ chatHistory' = <<>>
           /\ UNCHANGED <<documentId, fileName, fileSize, summary, sessionId,
                          challenges, currentChallenge, userAnswers, isLoading,
                          error>>]_vars

\* C18 witness: a transcript that held a pair has just been cleared in a
\* session that has a quiz and an error message.
ChatClearedBesideQuizAndError ==
    /\ IsLocal(event, "clearChatHistory")
    /\ event.before > 0
    /\ chatHistory = <<>>
    /\ challenges # <<>>
    /\ error # Null

\* C19: right after resetDocument the store equals the initial one:
\* documentId, sessionId and currentChallenge null, chatHistory, challenges
\* and userAnswers empty, no file name, size or summary, not uploaded, not
\* loading, no error.
ResetYieldsInitialStore ==
    IsLocal(event, "resetDocument")
        => /\ isUploaded = FALSE
           /\ fileName = "" /\ fileSize = 0 /\ summary = ""
           /\ documentId = Null /\ sessionId = Null
           /\ chatHistory = <<>> /\ challenges = <<>> /\ userAnswers = <<>>
           /\ currentChallenge = NoChallenge
           /\ isLoading = FALSE
           /\ error = Null

\* C19 witness: the store has just been reset while a submitChallengeAnswer
\* of the session that was reset, with its document and quiz, is still
\* pending.
ResetOverQuizSession ==
    /\ IsLocal(event, "resetDocument")
    /\ HasPending("submitChallengeAnswer")
    /\ documentId = Null

IsDispatch(e) == e.kind = "call" /\ e.outcome = "dispatched"

NoErrorAfterSuccess ==
    (event.kind = "settle" /\ event.outcome = "resolved") => error = Null

\* C22: every failure of an operation sets error to its message: a call that
\* throws for a missing precondition does, and a request that fails does.
EveryFailureSetsError ==
    [][/\ (event'.kind = "call" /\ event'.outcome = "thrown")
            => error' = event'.message
       /\ (event'.kind = "settle" /\ event'.outcome = "rejected")
            => error' = event'.data]_vars
\* C23: handleFileSelect sends an upload request only for a file of type PDF
\* or plain text whose size is at most 10 MB, the cap included; for any other
\* file, and only for such a file, it returns without a request and leaves
\* the store unchanged.
OnlyValidFilesUploaded ==
    [][/\ (IsCall(event', "uploadDocument") /\ event'.outcome = "dispatched")
            => /\ event'.req.file.type \in {"application/pdf", "text/plain"}
               /\ event'.req.file.size <= 10 * 1024 * 1024
               /\ pending' = Append(pending, event'.req)
       /\ IsLocal(event', "handleFileSelect")
            => /\ UNCHANGED <<documentState, pending, sent>>
               /\ \A f \in event'.file :
                      \/ f.type \notin {"application/pdf", "text/plain"}
                      \/ f.size > 10 * 1024 * 1024]_vars

\* C23 witness: a plain-text file of exactly 10 MB has been sent.
FileAtCapUploaded ==
    /\ IsCall(event, "uploadDocument")
    /\ event.outcome = "dispatched"
    /\ event.req.file.size = 10 * 1024 * 1024
    /\ event.req.file.type = "text/plain"
\* C24: the updates of the store are applied in the order of the calls: a
\* request never settles right after a request that was called later.
SettledInCallOrder ==
    [][(event.kind = "settle" /\ event'.kind = "settle")
        => event'.at >= event.at]_vars

\* C25: while isLoading is true no trigger of a component starts an
\* operation: no request is sent from a state in which isLoading is true.
NoTriggerWhileLoading ==
    [][IsDispatch(event') => ~isLoading]_vars
\* C26: right after a successful uploadDocument settlement currentChallenge
\* and sessionId are both null.
UploadSuccessClearsCursor ==
    IsSettle(event, "uploadDocument", "resolved")
        => (currentChallenge = NoChallenge /\ sessionId = Null)
IsPrefix(s, t) == Len(s) <= Len(t) /\ SubSeq(t, 1, Len(s)) = s

AnswersOfCurrentQuiz ==
    \A k \in 1 .. Len(userAnswers) : userAnswers[k].evaluation.of[1] = sessionId

\* C30: every message in chatHistory was asked against the current
\* documentId: an askQuestion request sent for one document appends nothing
\* when it settles after a successful upload has installed another document.
StaleAskNotAppended ==
    [][(/\ IsSettle(event', "askQuestion", "resolved")
        /\ documentId # Null
        /\ event'.req.document_id # documentId)
        => chatHistory' = chatHistory]_vars
\* C31: every answer in userAnswers has a questionIndex that is an index
\* into the current challenges.
AnswerIndexInRange ==
    \A k \in 1 .. Len(userAnswers) :
        /\ 0 <= userAnswers[k].questionIndex
        /\ userAnswers[k].questionIndex < Len(challenges)

\* C32: isUploaded is true exactly when documentId is not null.
UploadedIffDocument == isUploaded <=> (documentId # Null)
\* what a call of the operation of request req needs to be accepted
Accepted(req, uploaded, document, session, questions) ==
    CASE req.op = "uploadDocument" -> TRUE
      [] req.op = "askQuestion" -> uploaded
      [] req.op = "generateChallenges" -> uploaded
      [] req.op = "submitChallengeAnswer" ->
            /\ document # Null
            /\ session # Null
            /\ req.questionIndex < Len(questions)

\* C33: when every request that was sent settles, isLoading becomes false
\* again, and it is false whenever no request is pending; the failure of a
\* request leaves the store such that the same call is accepted again: what
\* the call needs and had before the failure, it has after it.
UsableAfterFailure ==
    /\ isLoading ~> ~isLoading
    /\ [](pending = <<>> => ~isLoading)
    /\ [][(event'.kind = "settle" /\ event'.outcome = "rejected")
            => (Accepted(event'.req, isUploaded, documentId, sessionId,
                         challenges)
                  => Accepted(event'.req, isUploaded', documentId', sessionId',
                              challenges'))]_vars

\* C33 witness: a submitChallengeAnswer has failed, nothing is pending,
\* isLoading is false and error holds the message, and the store still has
\* what the same call needs.
RetryPossibleAfterFailure ==
    /\ IsSettle(event, "submitChallengeAnswer", "rejected")
    /\ pending = <<>>
    /\ ~isLoading
    /\ error = event.data
    /\ Accepted(event.req, isUploaded, documentId, sessionId, challenges)
    /\ sent < MaxRequests
\* C35: from a state whose currentChallenge is an index into challenges,
\* handleNext and handlePrev leave it an index into challenges and change
\* nothing else; handleNext at the last question and handlePrev at question
\* 0 change nothing at all.
NavigationStaysInRange ==
    [][(/\ currentChallenge # NoChallenge
        /\ CursorInRange
        /\ handleNext \/ handlePrev)
        => /\ \A c \in currentChallenge' : 0 <= c /\ c < Len(challenges')
           /\ currentChallenge' # NoChallenge
           /\ UNCHANGED <<isUploaded, fileName, fileSize, summary, documentId,
                          sessionId, chatHistory, challenges, userAnswers,
                          isLoading, error, pending>>
           /\ (handleNext /\ currentChallenge = {Len(challenges) - 1})
                 => UNCHANGED documentState
           /\ (handlePrev /\ currentChallenge = {0})
                 => UNCHANGED documentState]_vars

\* C35 witness: handleNext has been called at the last question of a quiz
\* and the cursor is still there.
NextAtLastQuestion ==
    /\ IsLocal(event, "handleNext")
    /\ Len(challenges) = MaxQuestions
    /\ currentChallenge = {Len(challenges) - 1}

\* C34: in every ChatInterface variant isTyping is false again once the
\* askQuestion call that handleSubmit awaited has settled, resolved or rejected.
TypingResetOnceSettled ==
    (event.kind = "settle" /\ event.op = "askQuestion") => ~isTyping

\* C36: a click on a suggestion while isLoading is false dispatches exactly one
\* askQuestion, and its question is the suggestion that was clicked.
SuggestionIsAsked ==
    [][\A q \in Suggestions :
          (isUploaded /\ ~isLoading /\ sendSuggestion(q))
            => /\ IsCall(event', "askQuestion")
               /\ event'.outcome = "dispatched"
               /\ event'.req.question = q
               /\ Len(pending') = Len(pending) + 1]_vars

\* C37: a toast leaves the display only when its own duration has elapsed
\* (or a later showToast replaces it): the timeout of an earlier toast never
\* clears a later toast early. The toast on display is the one of the latest
\* showToast, whose timeout is the last of timers.
ToastLastsItsDuration ==
    [][(toast # {} /\ toast' = {})
        => (timers # <<>> /\ timers[Len(timers)].remaining = 0)]_vars

====
